---- MODULE Spec2Model ----
(***************************************************************************)
(* Model of src/src/index.js: a Worker whose fetch() routes a request by   *)
(* method and path to one of three handlers (analyzeImage, generateImage,  *)
(* transformImage); each handler parses the body, calls env.AI.run one to  *)
(* three times and answers with one Response.                              *)
(*                                                                         *)
(* One request is followed from its arrival to its response.  Handlers     *)
(* keep no state between requests, so the next request starts from fresh   *)
(* locals.  An action is the code that runs between two awaits on the      *)
(* gateway; the gateway's answer (a value or a thrown error) is the        *)
(* action's input.                                                         *)
(*                                                                         *)
(* JavaScript runs one task at a time and changes task only at an await,   *)
(* so requests in flight together interleave action by action: suspended   *)
(* holds the tasks that wait while another one runs.  Spec serves the      *)
(* requests one after the other; SpecConcurrent has several in flight.     *)
(***************************************************************************)
EXTENDS Integers, Sequences, FiniteSets, TLC

VARIABLES
    request,    \* the request being served: [method, path, body]
    pc,         \* where the request's task is suspended
    locals,     \* the handler's local constants, as assigned so far
    trace,      \* env.AI.run events of this request, in order
    invoked,    \* the handlers fetch() has called for this request
    caught,     \* the errors that reached a handler's catch block
    responses,  \* the Responses returned for this request
    clock,      \* the value Date.now() returns
    suspended   \* the tasks of the other requests in flight, not running now

vars == <<request, pc, locals, trace, invoked, caught, responses, clock, suspended>>

(***************************************************************************)
(* Bounds of the model.                                                    *)
(***************************************************************************)
MaxLabels == 4      \* longest classifier output
MaxClock == 1       \* Date.now() ranges over 0..MaxClock
MaxInFlight == 2    \* requests in flight together in SpecConcurrent

(***************************************************************************)
(* JavaScript values.  Each type has its own record shape.                 *)
(***************************************************************************)
Undefined == [t |-> "undefined"]
Null == [t |-> "null"]
Str(s) == [t |-> "string", s |-> s]
File(b) == [t |-> "file", bytes |-> b]
Arr(items) == [t |-> "array", items |-> items]
Obj(fields) == [t |-> "object", fields |-> fields]
NativeFn(name) == [t |-> "function", name |-> name]

\* a test against null and undefined only, where ToBoolean was meant
TruthyUnlessNullish(v) == v.t \notin {"undefined", "null"}

\* ToBoolean, as used by !x, x || y and x ? y : z
Truthy(v) ==
    CASE v.t = "undefined" -> FALSE
      [] v.t = "null" -> FALSE
      [] v.t = "string" -> v.s # ""
      [] OTHER -> TRUE

\* a || b
Or(a, b) == IF Truthy(a) THEN a ELSE b

\* ToString, as used by ${x} in a template literal and by a property key
ToStr(v) ==
    CASE v.t = "undefined" -> "undefined"
      [] v.t = "null" -> "null"
      [] v.t = "string" -> v.s
      [] v.t = "file" -> "[object File]"
      [] v.t = "function" -> "function " \o v.name \o "() { [native code] }"
      [] OTHER -> "[object Object]"

\* The properties every object literal inherits from Object.prototype
\* (the ones the inputs below can name).
ObjectPrototype ==
    [constructor |-> NativeFn("Object"), toString |-> NativeFn("toString")]

\* obj[key] on an object literal whose own properties are strings:
\* own property, else inherited property, else undefined
GetProperty(own, key) ==
    LET k == ToStr(key) IN
    IF k \in DOMAIN own THEN Str(own[k])
    ELSE IF k \in DOMAIN ObjectPrototype THEN ObjectPrototype[k]
    ELSE Undefined

\* formData.get(name): the field's value, or null
FormGet(fields, name) == IF name \in DOMAIN fields THEN fields[name] ELSE Null

\* obj.name on a parsed JSON object: the member, or undefined
Member(fields, name) == IF name \in DOMAIN fields THEN fields[name] ELSE Undefined

(***************************************************************************)
(* Responses.                                                              *)
(***************************************************************************)
corsHeaders ==
    ( "Access-Control-Allow-Origin" :> "*" ) @@
    ( "Access-Control-Allow-Methods" :> "GET, POST, OPTIONS" ) @@
    ( "Access-Control-Allow-Headers" :> "Content-Type" )

\* { ...headers, 'Content-Type': type }
WithContentType(headers, type) == ("Content-Type" :> type) @@ headers

\* new Response(body, init): the status is 200 unless init gives one
NewResponse(body, init) ==
    [ status |-> IF "status" \in DOMAIN init THEN init.status ELSE 200,
      headers |-> init.headers,
      body |-> body ]

\* Response.json(data, init): the body is the serialised data, and the
\* content type is application/json unless init's headers give one
ResponseJson(data, init) ==
    [ status |-> IF "status" \in DOMAIN init THEN init.status ELSE 200,
      headers |-> init.headers @@ ("Content-Type" :> "application/json"),
      body |-> [kind |-> "json", data |-> data] ]

NullBody == [kind |-> "null"]
TextBody(text) == [kind |-> "text", text |-> text]
BytesBody(bytes) == [kind |-> "bytes", bytes |-> bytes]

\* getHTML(): the page served at the root
getHTML == "<!DOCTYPE html> <html> ... </html>"

(***************************************************************************)
(* Requests the Worker can receive.                                        *)
(***************************************************************************)
Methods == {"GET", "POST", "OPTIONS", "PUT"}
Paths == { "/", "/api/analyze-image", "/api/generate-image",
           "/api/transform-image", "/unknown" }

\* An optional field is <<>> (absent) or <<v>> (present with value v).
Field(name, opt) == IF opt = <<>> THEN <<>> ELSE name :> opt[1]

ImageInputs == { <<>>, <<Str("")>>, <<Str("cat.png")>>, <<File("raw-bytes")>> }
CustomPromptInputs == { <<>>, <<Str("")>>, <<Str("add mountains")>> }
StyleInputs ==
    { <<>>, <<Str("")>>, <<Str("realistic")>>, <<Str("artistic")>>,
      <<Str("cartoon")>>, <<Str("abstract")>>, <<Str("vintage")>>,
      <<Str("constructor")>> }
PromptInputs == { <<>>, <<Null>>, <<Str("")>>, <<Str("a red fox")>> }

\* multipart bodies: any combination of the fields image, prompt, style
FormBodies ==
    { [kind |-> "form",
       fields |-> Field("image", i) @@ Field("prompt", p) @@ Field("style", s)] :
         i \in ImageInputs, p \in CustomPromptInputs, s \in StyleInputs }

\* JSON bodies: null, or an object with any combination of prompt and style
JsonBodies ==
    { [kind |-> "json", value |-> Null] } \cup
    { [kind |-> "json",
       value |-> Obj(Field("prompt", p) @@ Field("style", s))] :
         p \in PromptInputs, s \in StyleInputs \cup { <<Null>> } }

\* a request with no body at all
NoBody == [kind |-> "none"]

Bodies == {NoBody} \cup FormBodies \cup JsonBodies

(***************************************************************************)
(* What env.AI.run can answer: a value, or a thrown error.                 *)
(***************************************************************************)
Labels == {"cat", "dog", "tree", "sky", "grass"}

\* the classifier's confidence in a label, in percent
Score(label) ==
    CASE label = "cat" -> 90
      [] label = "dog" -> 50
      [] label = "tree" -> 30
      [] label = "sky" -> 10
      [] OTHER -> 5

Items == { [label |-> l, score |-> Score(l)] : l \in Labels }

\* every sequence of at most MaxLabels items with distinct labels, in any order
ClassifierOutputs ==
    { a \in UNION { [1..n -> Items] : n \in 0..MaxLabels } :
        \A i, j \in 1..Len(a) : a[i] = a[j] => i = j }

Returned(value) == [ok |-> TRUE, value |-> value]
Thrown(name, message) == [ok |-> FALSE, error |-> [name |-> name, message |-> message]]

GatewayFailure == Thrown("Error", "inference failed")

ClassifierResults ==
    { Returned(Arr(a)) : a \in ClassifierOutputs } \cup { Returned(Null), GatewayFailure }

TextResults ==
    { Returned(Obj(Field("response", r))) :
        r \in { <<>>, <<Str("")>>, <<Str("A forest scene")>> } }
    \cup { Returned(Null), GatewayFailure }

Bytes(b) == [t |-> "bytes", bytes |-> b]

SynthesisResults ==
    { Returned(Obj(Field("image", i))) : i \in { <<>>, <<Bytes("png-bytes")>> } }
    \cup { Returned(Null), GatewayFailure }

\* the models env.AI.run is called with
Classifier == "@cf/microsoft/resnet-50"
TextGenerator == "@cf/microsoft/phi-2"
Synthesizer == "@cf/stabilityai/stable-diffusion-xl-base-1.0"

\* trace events
Call(model, input) == [ev |-> "call", model |-> model, input |-> input]
Settle(model, result) ==
    [ev |-> IF result.ok THEN "return" ELSE "throw", model |-> model]

(***************************************************************************)
(* Pure pieces of the handlers.                                            *)
(***************************************************************************)
Min(a, b) == IF a < b THEN a ELSE b

\* array.slice(0, end)
SliceFromStart(items, end) == SubSeq(items, 1, Min(end, Len(items)))

\* array.join(separator) over strings
RECURSIVE Join(_, _)
Join(strings, separator) ==
    IF Len(strings) = 0 THEN ""
    ELSE IF Len(strings) = 1 THEN strings[1]
    ELSE strings[1] \o separator \o Join(Tail(strings), separator)

\* the labels joined with the slice forgotten
TopLabelsUnsliced(analysis) ==
    Join([i \in 1..Len(analysis) |-> analysis[i].label], ", ")

\* analysis.slice(0, 3).map(item => item.label).join(', ')
TopLabels(analysis) ==
    LET top == SliceFromStart(analysis, 3) IN
    Join([i \in 1..Len(top) |-> top[i].label], ", ")

\* the router with the method tests of the API paths forgotten
RouteIgnoringMethod(method, path) ==
    IF method = "OPTIONS" THEN "preflight"
    ELSE IF path = "/" /\ method = "GET" THEN "html"
    ELSE IF path = "/api/analyze-image" THEN "analyzeImage"
    ELSE IF path = "/api/generate-image" THEN "generateImage"
    ELSE IF path = "/api/transform-image" THEN "transformImage"
    ELSE "listing"

\* the router answering preflights on the API paths only
RoutePreflightOnApiOnly(method, path) ==
    IF method = "OPTIONS" /\ path # "/" /\ path # "/unknown" THEN "preflight"
    ELSE IF path = "/" /\ method = "GET" THEN "html"
    ELSE IF path = "/api/analyze-image" /\ method = "POST" THEN "analyzeImage"
    ELSE IF path = "/api/generate-image" /\ method = "POST" THEN "generateImage"
    ELSE IF path = "/api/transform-image" /\ method = "POST" THEN "transformImage"
    ELSE "listing"

\* the fetch router, lines 9-48: which outcome a method and path select
Route(method, path) ==
    IF method = "OPTIONS" THEN "preflight"
    ELSE IF path = "/" /\ method = "GET" THEN "html"
    ELSE IF path = "/api/analyze-image" /\ method = "POST" THEN "analyzeImage"
    ELSE IF path = "/api/generate-image" /\ method = "POST" THEN "generateImage"
    ELSE IF path = "/api/transform-image" /\ method = "POST" THEN "transformImage"
    ELSE "listing"

\* the default response's payload
Listing ==
    [ message |-> "AI Image Transformer API",
      endpoints |-> << "GET  / - HTML UI",
                       "POST /api/analyze-image - Analyze image to text",
                       "POST /api/generate-image - Generate image from text",
                       "POST /api/transform-image - Complete workflow" >> ]

\* JSON.stringify(data) as a response body
JsonBody(data) == [kind |-> "json", data |-> data]

\* request.formData(): the form's fields, or a thrown TypeError
FormData(body) ==
    IF body.kind = "form" THEN Returned(body.fields)
    ELSE Thrown("TypeError", "Parsing a Body as FormData requires a Content-Type header.")

\* request.json(): the parsed value, or a thrown SyntaxError
ParseJson(body) ==
    IF body.kind = "json" THEN Returned(body.value)
    ELSE Thrown("SyntaxError", "Unexpected end of JSON input")

\* imageFile.arrayBuffer(): only a File has the method
ArrayBuffer(imageFile) ==
    IF imageFile.t = "file" THEN Returned(imageFile.bytes)
    ELSE Thrown("TypeError", "imageFile.arrayBuffer is not a function")

\* the catch blocks
AnalyzeCatch(error, headers) ==
    ResponseJson([error |-> "Image analysis failed", details |-> error.message],
                 [status |-> 500, headers |-> headers])

GenerateCatch(error, headers) ==
    ResponseJson([error |-> "Image generation failed", details |-> error.message],
                 [status |-> 500, headers |-> headers])

\* the catch block with its status forgotten
TransformCatchNoStatus(error, headers) ==
    ResponseJson([error |-> "Image transformation failed", details |-> error.message],
                 [headers |-> headers])

TransformCatch(error, headers) ==
    ResponseJson([error |-> "Image transformation failed", details |-> error.message],
                 [status |-> 500, headers |-> headers])

\* the 400 answers
NoImage(headers) ==
    ResponseJson([error |-> "No image provided"], [status |-> 400, headers |-> headers])

NoPrompt(headers) ==
    ResponseJson([error |-> "Prompt is required"], [status |-> 400, headers |-> headers])

\* the image response with the handler's headers not spread into its own
ImageResponseOwnHeadersOnly(image, headers) ==
    NewResponse(IF image.t = "bytes" THEN BytesBody(image.bytes) ELSE NullBody,
                [headers |-> ("Content-Type" :> "image/png")])

\* new Response(x.image, { headers: { ...headers, 'Content-Type': 'image/png' } })
ImageResponse(image, headers) ==
    NewResponse(IF image.t = "bytes" THEN BytesBody(image.bytes) ELSE NullBody,
                [headers |-> WithContentType(headers, "image/png")])

\* the content of the message analyzeImage sends to the text generator
AnalyzeContent(topLabels) ==
    "Describe this image in detail for AI image generation. The image contains: "
    \o topLabels
    \o ". Provide a comprehensive description including objects, colors, style, lighting, and composition."

\* the content of the message transformImage sends to the text generator
TransformContent(topLabels, customPrompt) ==
    "Describe this image for AI generation. Content: " \o topLabels \o ". "
    \o (IF Truthy(customPrompt) THEN "Also: " \o ToStr(customPrompt) ELSE "")

\* generateImage's stylePrompts object
GenerateStylePrompts(prompt) ==
    [ realistic |-> "photorealistic " \o ToStr(prompt) \o ", high detail, 4k",
      artistic |-> "artistic painting of " \o ToStr(prompt) \o ", creative, masterpiece",
      cartoon |-> "cartoon style " \o ToStr(prompt) \o ", animated, colorful",
      abstract |-> "abstract interpretation of " \o ToStr(prompt) \o ", modern art" ]

\* transformImage's stylePrompts object
TransformStylePrompts(finalPrompt) ==
    [ realistic |-> "photorealistic " \o ToStr(finalPrompt) \o ", high detail",
      artistic |-> "artistic " \o ToStr(finalPrompt) \o ", painting style",
      cartoon |-> "cartoon " \o ToStr(finalPrompt) \o ", animated style",
      abstract |-> "abstract " \o ToStr(finalPrompt) \o ", modern art" ]

\* stylePrompts[style] || stylePrompts.realistic
StyleLookup(stylePrompts, style) ==
    Or(GetProperty(stylePrompts, style), GetProperty(stylePrompts, Str("realistic")))

\* the final description joined without the test of customPrompt
FinalPromptAlwaysJoined(baseDescription, customPrompt) ==
    Str(ToStr(baseDescription) \o ". " \o ToStr(customPrompt))

\* customPrompt ? `${baseDescription}. ${customPrompt}` : baseDescription
FinalPrompt(baseDescription, customPrompt) ==
    IF Truthy(customPrompt)
    THEN Str(ToStr(baseDescription) \o ". " \o ToStr(customPrompt))
    ELSE baseDescription

\* `${prompt} timestamp:${Date.now()}`
Stamped(prompt, now) == ToStr(prompt) \o " timestamp:" \o ToString(now)

\* the input of the image synthesis call
SynthesisInput(prompt, now) == [prompt |-> Stamped(prompt, now), num_steps |-> 20]

Init ==
    /\ request = [method |-> "GET", path |-> "/", body |-> NoBody]
    /\ pc = "idle"
    /\ locals = <<>>
    /\ trace = <<>>
    /\ invoked = <<>>
    /\ caught = <<>>
    /\ responses = <<>>
    /\ clock = 0
    /\ suspended = <<>>

\* a request arrives: fetch(request, env) is called
Receive ==
    /\ pc = "idle"
    /\ \E method \in Methods, path \in Paths, body \in Bodies :
          request' = [method |-> method, path |-> path, body |-> body]
    /\ pc' = "fetch"
    /\ locals' = <<>>
    /\ trace' = <<>>
    /\ invoked' = <<>>
    /\ caught' = <<>>
    /\ responses' = <<>>
    /\ UNCHANGED <<clock, suspended>>

\* the request's task has ended and its values are dropped
Discard ==
    /\ pc = "done"
    /\ pc' = "idle"
    /\ request' = [method |-> "GET", path |-> "/", body |-> NoBody]
    /\ locals' = <<>>
    /\ trace' = <<>>
    /\ invoked' = <<>>
    /\ caught' = <<>>
    /\ responses' = <<>>
    /\ UNCHANGED <<clock, suspended>>

\* Date.now() moves forward
Tick ==
    /\ clock < MaxClock
    /\ clock' = clock + 1
    /\ UNCHANGED <<request, pc, locals, trace, invoked, caught, responses, suspended>>

\* the task goes on to its next await
Advance(nextPc, nextLocals, nextTrace) ==
    /\ pc' = nextPc
    /\ locals' = nextLocals
    /\ trace' = nextTrace
    /\ UNCHANGED <<request, invoked, caught, responses, clock, suspended>>

\* return response;
Return(response, nextLocals, nextTrace) ==
    /\ pc' = "done"
    /\ responses' = Append(responses, response)
    /\ locals' = nextLocals
    /\ trace' = nextTrace
    /\ UNCHANGED <<request, invoked, caught, clock, suspended>>

\* an error thrown inside try reaches catch (error), which returns response
Catch(error, response, nextTrace) ==
    /\ pc' = "done"
    /\ caught' = Append(caught, error)
    /\ responses' = Append(responses, response)
    /\ trace' = nextTrace
    /\ UNCHANGED <<request, locals, invoked, clock, suspended>>

\* reading a property of null
NullRead(property) ==
    [name |-> "TypeError",
     message |-> "Cannot read properties of null (reading '" \o property \o "')"]

\* fetch(request, env), lines 2-49
Fetch ==
    /\ pc = "fetch"
    /\ LET target == Route(request.method, request.path) IN
       CASE target = "preflight" ->
              Return(NewResponse(NullBody, [headers |-> corsHeaders]), locals, trace)
         [] target = "html" ->
              Return(NewResponse(TextBody(getHTML),
                                 [headers |-> WithContentType(corsHeaders, "text/html")]),
                     locals, trace)
         [] target = "listing" ->
              Return(NewResponse(JsonBody(Listing),
                                 [headers |-> WithContentType(corsHeaders, "application/json")]),
                     locals, trace)
         [] OTHER ->
              /\ pc' = target
              /\ invoked' = Append(invoked, target)
              /\ locals' = [headers |-> corsHeaders]
              /\ UNCHANGED <<request, trace, caught, responses, clock, suspended>>

\* analyzeImage, lines 54-71: up to the classifier call
AnalyzeStart ==
    /\ pc = "analyzeImage"
    /\ LET formData == FormData(request.body) IN
       IF ~formData.ok
       THEN Catch(formData.error, AnalyzeCatch(formData.error, locals.headers), trace)
       ELSE
       LET imageFile == FormGet(formData.value, "image") IN
       IF ~Truthy(imageFile)
       THEN Return(NoImage(locals.headers), locals, trace)
       ELSE
       LET imageBytes == ArrayBuffer(imageFile) IN
       IF ~imageBytes.ok
       THEN Catch(imageBytes.error, AnalyzeCatch(imageBytes.error, locals.headers), trace)
       ELSE Advance("analyze:classify",
                    [imageUint8 |-> imageBytes.value] @@ locals,
                    Append(trace, Call(Classifier, [image |-> imageBytes.value])))

\* analyzeImage, lines 69-82: the classifier settles; up to the text generator call
AnalyzeClassified ==
    /\ pc = "analyze:classify"
    /\ \E result \in ClassifierResults :
       LET settled == Append(trace, Settle(Classifier, result)) IN
       IF ~result.ok
       THEN Catch(result.error, AnalyzeCatch(result.error, locals.headers), settled)
       ELSE IF result.value.t # "array"
       THEN Catch(NullRead("slice"), AnalyzeCatch(NullRead("slice"), locals.headers), settled)
       ELSE
       LET analysis == result.value.items
           topLabels == TopLabels(analysis)
       IN  Advance("analyze:describe",
                   [analysis |-> analysis, topLabels |-> topLabels] @@ locals,
                   Append(settled,
                          Call(TextGenerator,
                               [content |-> AnalyzeContent(topLabels), max_tokens |-> 200])))

\* analyzeImage, lines 76-90: the text generator settles; the answer
AnalyzeDescribed ==
    /\ pc = "analyze:describe"
    /\ \E result \in TextResults :
       LET settled == Append(trace, Settle(TextGenerator, result)) IN
       IF ~result.ok
       THEN Catch(result.error, AnalyzeCatch(result.error, locals.headers), settled)
       ELSE IF result.value.t # "object"
       THEN Catch(NullRead("response"), AnalyzeCatch(NullRead("response"), locals.headers),
                  settled)
       ELSE
       LET description == Or(Member(result.value.fields, "response"),
                             Str("An image featuring " \o locals.topLabels))
       IN  Return(ResponseJson([analysis |-> locals.analysis,
                                description |-> ToStr(description),
                                prompt_suggestion |->
                                    "Create a new image: " \o ToStr(description)],
                               [headers |-> locals.headers]),
                  [description |-> description] @@ locals,
                  settled)

\* const { prompt, style = "realistic" } = value
Destructure(value) ==
    IF value.t \in {"null", "undefined"}
    THEN Thrown("TypeError", "Cannot destructure property 'prompt' of 'null'")
    ELSE Returned([prompt |-> Member(value.fields, "prompt"),
                   style |-> IF Member(value.fields, "style") = Undefined
                             THEN Str("realistic")
                             ELSE Member(value.fields, "style")])

\* generateImage, lines 104-126: up to the image synthesis call
GenerateStart ==
    /\ pc = "generateImage"
    /\ LET json == ParseJson(request.body) IN
       IF ~json.ok
       THEN Catch(json.error, GenerateCatch(json.error, locals.headers), trace)
       ELSE
       LET body == Destructure(json.value) IN
       IF ~body.ok
       THEN Catch(body.error, GenerateCatch(body.error, locals.headers), trace)
       ELSE
       LET prompt == body.value.prompt
           style == body.value.style
       IN
       IF ~Truthy(prompt)
       THEN Return(NoPrompt(locals.headers), locals, trace)
       ELSE
       LET finalPrompt == StyleLookup(GenerateStylePrompts(prompt), style) IN
       Advance("generate:synthesize",
               [prompt |-> prompt, style |-> style, finalPrompt |-> finalPrompt] @@ locals,
               Append(trace, Call(Synthesizer, SynthesisInput(finalPrompt, clock))))

\* the image synthesis tried a second time when its first attempt throws
GenerateSynthesizedRetry ==
    /\ pc = "generate:synthesize"
    /\ \E result \in SynthesisResults :
       LET settled == Append(trace, Settle(Synthesizer, result)) IN
       IF ~result.ok /\ Len(trace) = 1
       THEN Advance("generate:synthesize", locals,
                    Append(settled,
                           Call(Synthesizer, SynthesisInput(locals.finalPrompt, clock))))
       ELSE IF ~result.ok
       THEN Catch(result.error, GenerateCatch(result.error, locals.headers), settled)
       ELSE IF result.value.t # "object"
       THEN Catch(NullRead("image"), GenerateCatch(NullRead("image"), locals.headers), settled)
       ELSE Return(ImageResponse(Member(result.value.fields, "image"), locals.headers),
                   locals, settled)

\* generateImage, lines 123-130: the image synthesis settles; the answer
GenerateSynthesized ==
    /\ pc = "generate:synthesize"
    /\ \E result \in SynthesisResults :
       LET settled == Append(trace, Settle(Synthesizer, result)) IN
       IF ~result.ok
       THEN Catch(result.error, GenerateCatch(result.error, locals.headers), settled)
       ELSE IF result.value.t # "object"
       THEN Catch(NullRead("image"), GenerateCatch(NullRead("image"), locals.headers), settled)
       ELSE Return(ImageResponse(Member(result.value.fields, "image"), locals.headers),
                   locals, settled)

\* the classifier and the text generator called together, neither awaited first
TransformStartFanOut ==
    /\ pc = "transformImage"
    /\ LET formData == FormData(request.body) IN
       IF ~formData.ok
       THEN Catch(formData.error, TransformCatch(formData.error, locals.headers), trace)
       ELSE
       LET imageFile == FormGet(formData.value, "image")
           customPrompt == Or(FormGet(formData.value, "prompt"), Str(""))
           style == Or(FormGet(formData.value, "style"), Str("realistic"))
           parsed == [customPrompt |-> customPrompt, style |-> style] @@ locals
       IN
       IF ~Truthy(imageFile)
       THEN Return(NoImage(locals.headers), parsed, trace)
       ELSE
       LET imageBytes == ArrayBuffer(imageFile) IN
       IF ~imageBytes.ok
       THEN Catch(imageBytes.error, TransformCatch(imageBytes.error, locals.headers), trace)
       ELSE Advance("transform:classify",
                    [imageUint8 |-> imageBytes.value] @@ parsed,
                    trace \o << Call(Classifier, [image |-> imageBytes.value]),
                                Call(TextGenerator,
                                     [content |-> TransformContent("", customPrompt),
                                      max_tokens |-> 150]) >>)

\* transformImage, lines 144-162: up to the classifier call
TransformStart ==
    /\ pc = "transformImage"
    /\ LET formData == FormData(request.body) IN
       IF ~formData.ok
       THEN Catch(formData.error, TransformCatch(formData.error, locals.headers), trace)
       ELSE
       LET imageFile == FormGet(formData.value, "image")
           customPrompt == Or(FormGet(formData.value, "prompt"), Str(""))
           style == Or(FormGet(formData.value, "style"), Str("realistic"))
           parsed == [customPrompt |-> customPrompt, style |-> style] @@ locals
       IN
       IF ~Truthy(imageFile)
       THEN Return(NoImage(locals.headers), parsed, trace)
       ELSE
       LET imageBytes == ArrayBuffer(imageFile) IN
       IF ~imageBytes.ok
       THEN Catch(imageBytes.error, TransformCatch(imageBytes.error, locals.headers), trace)
       ELSE Advance("transform:classify",
                    [imageUint8 |-> imageBytes.value] @@ parsed,
                    Append(trace, Call(Classifier, [image |-> imageBytes.value])))

\* transformImage, lines 160-173: the classifier settles; up to the text generator call
TransformClassified ==
    /\ pc = "transform:classify"
    /\ \E result \in ClassifierResults :
       LET settled == Append(trace, Settle(Classifier, result)) IN
       IF ~result.ok
       THEN Catch(result.error, TransformCatch(result.error, locals.headers), settled)
       ELSE IF result.value.t # "array"
       THEN Catch(NullRead("slice"), TransformCatch(NullRead("slice"), locals.headers),
                  settled)
       ELSE
       LET analysis == result.value.items
           topLabels == TopLabels(analysis)
       IN  Advance("transform:describe",
                   [analysis |-> analysis, topLabels |-> topLabels] @@ locals,
                   Append(settled,
                          Call(TextGenerator,
                               [content |-> TransformContent(topLabels, locals.customPrompt),
                                max_tokens |-> 150])))

\* transformImage, lines 167-191: the text generator settles; up to the synthesis call
TransformDescribed ==
    /\ pc = "transform:describe"
    /\ \E result \in TextResults :
       LET settled == Append(trace, Settle(TextGenerator, result)) IN
       IF ~result.ok
       THEN Catch(result.error, TransformCatch(result.error, locals.headers), settled)
       ELSE IF result.value.t # "object"
       THEN Catch(NullRead("response"), TransformCatch(NullRead("response"), locals.headers),
                  settled)
       ELSE
       LET baseDescription == Or(Member(result.value.fields, "response"),
                                 Str("An image with " \o locals.topLabels))
           finalPrompt == FinalPrompt(baseDescription, locals.customPrompt)
           styledPrompt == StyleLookup(TransformStylePrompts(finalPrompt), locals.style)
       IN  Advance("transform:synthesize",
                   [baseDescription |-> baseDescription, finalPrompt |-> finalPrompt,
                    styledPrompt |-> styledPrompt] @@ locals,
                   Append(settled, Call(Synthesizer, SynthesisInput(styledPrompt, clock))))

\* transformImage, lines 188-195: the image synthesis settles; the answer
TransformSynthesized ==
    /\ pc = "transform:synthesize"
    /\ \E result \in SynthesisResults :
       LET settled == Append(trace, Settle(Synthesizer, result)) IN
       IF ~result.ok
       THEN Catch(result.error, TransformCatch(result.error, locals.headers), settled)
       ELSE IF result.value.t # "object"
       THEN Catch(NullRead("image"), TransformCatch(NullRead("image"), locals.headers),
                  settled)
       ELSE Return(ImageResponse(Member(result.value.fields, "image"), locals.headers),
                   locals, settled)

Next ==
    \/ Receive
    \/ Fetch
    \/ AnalyzeStart
    \/ AnalyzeClassified
    \/ AnalyzeDescribed
    \/ GenerateStart
    \/ GenerateSynthesized
    \/ TransformStart
    \/ TransformClassified
    \/ TransformDescribed
    \/ TransformSynthesized
    \/ Discard
    \/ Tick

Spec == Init /\ [][Next]_vars

(***************************************************************************)
(* Requests in flight together.  Each is a task of its own with its own    *)
(* request, locals and responses; the tasks share Date.now() and the       *)
(* gateway.  The requests are POSTs to /api/generate-image with any JSON   *)
(* body.                                                                   *)
(***************************************************************************)
\* the running task, as it is kept while another task runs
Running ==
    [ request |-> request, pc |-> pc, locals |-> locals, trace |-> trace,
      invoked |-> invoked, caught |-> caught, responses |-> responses ]

\* the number of requests that have arrived
InFlight == (IF pc = "idle" THEN 0 ELSE 1) + Len(suspended)

\* a request arrives while the running task, if there is one, is suspended
\* or has returned: fetch(request, env) is called for it
Arrive ==
    /\ InFlight < MaxInFlight
    /\ \E body \in JsonBodies :
          request' = [method |-> "POST", path |-> "/api/generate-image", body |-> body]
    /\ pc' = "fetch"
    /\ locals' = <<>>
    /\ trace' = <<>>
    /\ invoked' = <<>>
    /\ caught' = <<>>
    /\ responses' = <<>>
    /\ suspended' = IF pc = "idle" THEN suspended ELSE Append(suspended, Running)
    /\ UNCHANGED clock

\* the running task is suspended at its await, or has returned, and the
\* event loop resumes another task
Switch ==
    /\ pc # "idle"
    /\ \E i \in DOMAIN suspended :
          /\ request' = suspended[i].request
          /\ pc' = suspended[i].pc
          /\ locals' = suspended[i].locals
          /\ trace' = suspended[i].trace
          /\ invoked' = suspended[i].invoked
          /\ caught' = suspended[i].caught
          /\ responses' = suspended[i].responses
          /\ suspended' = [suspended EXCEPT ![i] = Running]
    /\ UNCHANGED clock

NextConcurrent ==
    \/ Arrive
    \/ Switch
    \/ Fetch
    \/ GenerateStart
    \/ GenerateSynthesized
    \/ Tick

SpecConcurrent == Init /\ [][NextConcurrent]_vars

(***************************************************************************)
(* Vocabulary of the properties.                                           *)
(***************************************************************************)
\* the env.AI.run calls of the request so far, in order
CallsMade == SelectSeq(trace, LAMBDA e : e.ev = "call")

\* the request is answered
Answered == pc = "done"

\* response carries the three CORS headers with their fixed values
CarriesCors(response) ==
    /\ { "Access-Control-Allow-Origin", "Access-Control-Allow-Methods",
         "Access-Control-Allow-Headers" } \subseteq DOMAIN response.headers
    /\ response.headers["Access-Control-Allow-Origin"] = "*"
    /\ response.headers["Access-Control-Allow-Methods"] = "GET, POST, OPTIONS"
    /\ response.headers["Access-Control-Allow-Headers"] = "Content-Type"

\* response is a JSON document with exactly the given keys
IsJson(response, keys) ==
    /\ response.body.kind = "json"
    /\ DOMAIN response.body.data = keys

(***************************************************************************)
(* C1: for every request whose method is not OPTIONS, method and path      *)
(* select exactly one outcome: GET / answers the HTML page as text/html;   *)
(* POST on one of the three API paths invokes that path's handler and no   *)
(* other; every other combination answers the capability listing with      *)
(* status 200, invokes no handler and makes no gateway call.               *)
(***************************************************************************)
RouteSelectsOneOutcome ==
    (pc \notin {"idle", "fetch"} /\ request.method # "OPTIONS") =>
        LET m == request.method
            p == request.path
        IN
        CASE m = "GET" /\ p = "/" ->
               /\ Answered /\ invoked = <<>> /\ trace = <<>>
               /\ Len(responses) = 1
               /\ responses[1].body.kind = "text"
               /\ responses[1].body.text = getHTML
               /\ responses[1].headers["Content-Type"] = "text/html"
          [] m = "POST" /\ p = "/api/analyze-image" -> invoked = <<"analyzeImage">>
          [] m = "POST" /\ p = "/api/generate-image" -> invoked = <<"generateImage">>
          [] m = "POST" /\ p = "/api/transform-image" -> invoked = <<"transformImage">>
          [] OTHER ->
               /\ Answered /\ invoked = <<>> /\ trace = <<>>
               /\ Len(responses) = 1
               /\ responses[1].status = 200
               /\ IsJson(responses[1], {"message", "endpoints"})
               /\ responses[1].body.data = Listing

\* GET on an API path has been answered with the listing
ListingForGetOnApiPath ==
    /\ Answered
    /\ request.method = "GET" /\ request.path = "/api/generate-image"
    /\ Len(responses) = 1 /\ responses[1].body.kind = "json"
    /\ responses[1].body.data = Listing

(***************************************************************************)
(* C2: when an error is thrown inside a handler (parsing the body, a       *)
(* gateway call, or the processing of a gateway result), the request gets  *)
(* exactly one response: status 500, a JSON body with exactly the keys     *)
(* error and details, hence neither image bytes nor analysis results.      *)
(***************************************************************************)
ErrorSeen == caught # <<>> \/ \E i \in DOMAIN trace : trace[i].ev = "throw"

ThrownErrorAnswers500 ==
    ErrorSeen =>
        /\ Answered
        /\ Len(caught) = 1
        /\ Len(responses) = 1
        /\ responses[1].status = 500
        /\ IsJson(responses[1], {"error", "details"})
        /\ responses[1].body.data.details = caught[1].message

\* transformImage's last gateway call, the image synthesis, has thrown
SynthesisThrewInTransform ==
    /\ Answered
    /\ invoked = <<"transformImage">>
    /\ Len(trace) = 6 /\ trace[6].ev = "throw"
    /\ responses[1].status = 500

(***************************************************************************)
(* C3 as claimed: whenever the body of a request lacks the handler's       *)
(* required input (image for analyzeImage and transformImage, a non-empty  *)
(* prompt for generateImage), whatever the body is, the answer is 400 with *)
(* a JSON body that has the key error.                                     *)
(***************************************************************************)
\* the value the handler would find for its required field in any body
RequiredInput(handler, body) ==
    IF handler = "generateImage"
    THEN IF body.kind = "json" /\ body.value.t = "object"
         THEN Member(body.value.fields, "prompt")
         ELSE Undefined
    ELSE IF body.kind = "form" THEN FormGet(body.fields, "image") ELSE Null

\* the body can be read as the handler reads it: a form for analyzeImage and
\* transformImage, a JSON value other than null for generateImage
BodyParses(handler, body) ==
    IF handler = "generateImage"
    THEN body.kind = "json" /\ body.value.t = "object"
    ELSE body.kind = "form"

Answers400 ==
    /\ Len(responses) = 1
    /\ responses[1].status = 400
    /\ responses[1].body.kind = "json"
    /\ "error" \in DOMAIN responses[1].body.data

MissingInputAlways400 ==
    (Answered /\ invoked # <<>>
        /\ RequiredInput(invoked[1], request.body) \in {Undefined, Null, Str("")})
    => Answers400

(***************************************************************************)
(* C3 as amended: when the body parses (a form for analyzeImage and        *)
(* transformImage, a JSON value other than null for generateImage) and     *)
(* lacks the required input, or has it empty, the answer is 400 with a     *)
(* JSON body that has the key error, and no gateway call is made.          *)
(***************************************************************************)
MissingInputOfParsedBody400 ==
    (Answered /\ invoked # <<>>
        /\ BodyParses(invoked[1], request.body)
        /\ RequiredInput(invoked[1], request.body) \in {Undefined, Null, Str("")})
    => (Answers400 /\ trace = <<>> /\ caught = <<>>)

\* generateImage has answered a JSON body whose prompt is the empty string
EmptyPromptRefused ==
    /\ Answered
    /\ invoked = <<"generateImage">>
    /\ BodyParses("generateImage", request.body)
    /\ RequiredInput("generateImage", request.body) = Str("")
    /\ responses[1].status = 400

(***************************************************************************)
(* C4: for every style that is not realistic, artistic, cartoon or         *)
(* abstract (empty, missing, or any other string), the styled prompt of    *)
(* generateImage and of transformImage is the one built for realistic;     *)
(* and the lookup always yields one of the four template strings.          *)
(***************************************************************************)
StyleNames == {"realistic", "artistic", "cartoon", "abstract"}

\* the style the request names, as a string ("" when it names none)
RequestedStyle ==
    IF request.body.kind = "form"
    THEN ToStr(Or(FormGet(request.body.fields, "style"), Str("")))
    ELSE ToStr(Or(Member(request.body.value.fields, "style"), Str("")))

UnknownStyleFallsBackToRealistic ==
    /\ "finalPrompt" \in DOMAIN locals /\ invoked = <<"generateImage">> =>
         LET templates == GenerateStylePrompts(locals.prompt) IN
         /\ locals.finalPrompt \in { Str(templates[n]) : n \in StyleNames }
         /\ RequestedStyle \notin StyleNames =>
                locals.finalPrompt = Str(templates["realistic"])
    /\ "styledPrompt" \in DOMAIN locals /\ invoked = <<"transformImage">> =>
         LET templates == TransformStylePrompts(locals.finalPrompt) IN
         /\ locals.styledPrompt \in { Str(templates[n]) : n \in StyleNames }
         /\ RequestedStyle \notin StyleNames =>
                locals.styledPrompt = Str(templates["realistic"])

(***************************************************************************)
(* C5 as claimed: a handler makes at most two gateway calls while serving  *)
(* one request.                                                            *)
(***************************************************************************)
AtMostTwoGatewayCalls == Len(CallsMade) <= 2

(***************************************************************************)
(* C5 as amended: while serving one request analyzeImage makes at most two *)
(* gateway calls, generateImage at most one and transformImage at most     *)
(* three, on every path; a request that invokes no handler makes none.     *)
(***************************************************************************)
GatewayCallsPerHandler ==
    Len(CallsMade) <=
        ( CASE invoked = <<"analyzeImage">> -> 2
            [] invoked = <<"generateImage">> -> 1
            [] invoked = <<"transformImage">> -> 3
            [] OTHER -> 0 )

\* transformImage has answered with an image after its three gateway calls
TransformMadeThreeCalls ==
    /\ Answered
    /\ invoked = <<"transformImage">>
    /\ Len(CallsMade) = 3
    /\ responses[1].status = 200

(***************************************************************************)
(* C6: every response of fetch, whatever its outcome, carries the three    *)
(* CORS headers Access-Control-Allow-Origin: *, Access-Control-Allow-      *)
(* Methods: GET, POST, OPTIONS and Access-Control-Allow-Headers:           *)
(* Content-Type.                                                           *)
(***************************************************************************)
EveryResponseCarriesCors ==
    /\ \A i \in DOMAIN responses : CarriesCors(responses[i])
    /\ Answered => Len(responses) = 1

\* an image/png response has been returned
ImageReturned ==
    /\ Answered
    /\ responses[1].status = 200
    /\ responses[1].body.kind = "bytes"
    /\ responses[1].headers["Content-Type"] = "image/png"

(***************************************************************************)
(* C7: an OPTIONS request to any path is answered with status 200, an      *)
(* empty body and the three CORS headers; no handler is invoked and no     *)
(* gateway call is made for it.                                            *)
(***************************************************************************)
PreflightAnswer ==
    (pc # "idle" /\ request.method = "OPTIONS") =>
        /\ pc \in {"fetch", "done"}
        /\ invoked = <<>>
        /\ trace = <<>>
        /\ Answered =>
             /\ Len(responses) = 1
             /\ responses[1].status = 200
             /\ responses[1].body.kind = "null"
             /\ CarriesCors(responses[1])

\* an OPTIONS request to an API path has been answered
PreflightOnApiPath ==
    /\ Answered
    /\ request.method = "OPTIONS" /\ request.path = "/api/transform-image"
    /\ responses[1].status = 200

(***************************************************************************)
(* C8: in transformImage the final description, before the style template  *)
(* is applied, is the base description unchanged when customPrompt is      *)
(* empty or absent, and base + ". " + customPrompt when it is not empty:   *)
(* base "A forest scene" and custom "add mountains" give                   *)
(* "A forest scene. add mountains".                                        *)
(***************************************************************************)
TransformFinalDescription ==
    ("finalPrompt" \in DOMAIN locals /\ invoked = <<"transformImage">>) =>
        LET custom == FormGet(request.body.fields, "prompt")
            base == locals.baseDescription
        IN
        /\ base.t = "string"
        /\ custom \in {Null, Str("")} => locals.finalPrompt = base
        /\ custom \notin {Null, Str("")} =>
               locals.finalPrompt = Str(base.s \o ". " \o custom.s)
        /\ (base = Str("A forest scene") /\ custom = Str("add mountains")) =>
               locals.finalPrompt = Str("A forest scene. add mountains")

\* the example of the claim has been computed
ForestWithMountains ==
    /\ invoked = <<"transformImage">>
    /\ "finalPrompt" \in DOMAIN locals
    /\ locals.baseDescription = Str("A forest scene")
    /\ FormGet(request.body.fields, "prompt") = Str("add mountains")
    /\ locals.finalPrompt = Str("A forest scene. add mountains")

(***************************************************************************)
(* C9: topLabels, in analyzeImage and in transformImage, is the labels of  *)
(* the first three entries of the classifier's output (of all entries when *)
(* there are fewer), in the classifier's order, joined by ", ": the labels *)
(* cat, dog, tree, sky give "cat, dog, tree".                              *)
(***************************************************************************)
TopLabelsAreFirstThree ==
    "topLabels" \in DOMAIN locals =>
        LET a == locals.analysis
            n == Len(a)
        IN
        /\ locals.topLabels =
             ( CASE n = 0 -> ""
                 [] n = 1 -> a[1].label
                 [] n = 2 -> a[1].label \o ", " \o a[2].label
                 [] OTHER -> a[1].label \o ", " \o a[2].label \o ", " \o a[3].label )
        /\ [i \in 1..n |-> a[i].label] = <<"cat", "dog", "tree", "sky">> =>
               locals.topLabels = "cat, dog, tree"

\* the example of the claim has been computed by transformImage
CatDogTreeSky ==
    /\ invoked = <<"transformImage">>
    /\ "topLabels" \in DOMAIN locals
    /\ [i \in 1..Len(locals.analysis) |-> locals.analysis[i].label]
           = <<"cat", "dog", "tree", "sky">>
    /\ locals.topLabels = "cat, dog, tree"

(***************************************************************************)
(* C10: within one request the gateway calls are made one at a time, each  *)
(* only after the one before has settled, in the order classifier, text    *)
(* generator, image synthesizer (analyzeImage: the first two,              *)
(* generateImage: the last, transformImage: all three); no model is called *)
(* twice; and once a step has failed no further gateway call is made.      *)
(***************************************************************************)
Pipeline(handler) ==
    CASE handler = "analyzeImage" -> <<Classifier, TextGenerator>>
      [] handler = "generateImage" -> <<Synthesizer>>
      [] handler = "transformImage" -> <<Classifier, TextGenerator, Synthesizer>>

ModelsCalled == [i \in 1..Len(CallsMade) |-> CallsMade[i].model]

OneCallAtATimeInOrder ==
    /\ \A i \in DOMAIN trace :
         IF i % 2 = 1
         THEN trace[i].ev = "call"
         ELSE trace[i].ev \in {"return", "throw"} /\ trace[i].model = trace[i - 1].model
    /\ invoked = <<>> => trace = <<>>
    /\ invoked # <<>> =>
         /\ Len(invoked) = 1
         /\ Len(ModelsCalled) <= Len(Pipeline(invoked[1]))
         /\ ModelsCalled = SubSeq(Pipeline(invoked[1]), 1, Len(ModelsCalled))
    /\ \A i, j \in DOMAIN ModelsCalled : ModelsCalled[i] = ModelsCalled[j] => i = j
    /\ \A i \in DOMAIN trace : trace[i].ev = "throw" => i = Len(trace)
    /\ caught # <<>> => (Answered /\ Len(trace) % 2 = 0)

LinearPipeline ==
    /\ []OneCallAtATimeInOrder
    /\ [][caught # <<>> => (trace' = trace \/ trace' = <<>>)]_vars

\* analyzeImage's text generator call has thrown after the classifier returned
DescribeThrewInAnalyze ==
    /\ Answered
    /\ invoked = <<"analyzeImage">>
    /\ Len(trace) = 4
    /\ trace[2].ev = "return" /\ trace[4].ev = "throw"

(***************************************************************************)
(* C11: every prompt sent to the image synthesizer ends with the suffix    *)
(* " timestamp:" followed by the time of the call, and no two distinct     *)
(* synthesis calls send the same prompt string, those of two requests in   *)
(* flight together with the same prompt and style included.                *)
(***************************************************************************)
\* the tasks in flight: the running one, then the suspended ones
Tasks == IF pc = "idle" THEN suspended ELSE <<Running>> \o suspended

\* the synthesis calls made so far, each named by its task and its place in
\* the task's trace
SynthesisCalls ==
    { c \in UNION { {t} \X DOMAIN Tasks[t].trace : t \in DOMAIN Tasks } :
        /\ Tasks[c[1]].trace[c[2]].ev = "call"
        /\ Tasks[c[1]].trace[c[2]].model = Synthesizer }

PromptSent(c) == Tasks[c[1]].trace[c[2]].input.prompt

\* the prompt of call c is the task's styled prompt followed by the suffix
EndsWithTimestamp(c) ==
    LET task == Tasks[c[1]]
        styled == IF "styledPrompt" \in DOMAIN task.locals
                  THEN task.locals.styledPrompt
                  ELSE task.locals.finalPrompt
    IN  \E now \in 0..MaxClock :
            PromptSent(c) = ToStr(styled) \o " timestamp:" \o ToString(now)

\* every synthesis prompt carries the suffix
SynthesisPromptsStamped == \A c \in SynthesisCalls : EndsWithTimestamp(c)

\* C11: every synthesis prompt carries the suffix, and no two distinct
\* synthesis calls, of one request or of two in flight together, send the
\* same prompt string
SynthesisPromptsUnique ==
    /\ SynthesisPromptsStamped
    /\ \A c, d \in SynthesisCalls : c # d => PromptSent(c) # PromptSent(d)

====
